---- MODULE Spec2Model ----
(***************************************************************************)
(* State-machine model of the storefront backend in src/server.py: the     *)
(* token service, the access guard, signup/login, the seed loader, the     *)
(* cart, order, catalog and settings handlers, over a document store.      *)
(*                                                                         *)
(* Every handler is an async coroutine; the scheduler may switch to        *)
(* another request at each `await` of a store call.  One action of the     *)
(* model is therefore the code of a handler from one store call up to the  *)
(* next one (or to the response), and pc[p] is the store call at which     *)
(* request slot p is suspended.                                            *)
(***************************************************************************)
EXTENDS Integers, Sequences, FiniteSets, TLC

(* ------------------------------ bounds -------------------------------- *)

\* number of clients (request slots) that issue requests concurrently
NProcs == 2

\* signups are accepted while fewer than this many users exist or are
\* being inserted
MaxUsers == 2

\* initialize() is called at most this many times
MaxInitCalls == 2

\* the clock stops after this many ticks (one tick = one day)
MaxClock == 8

\* the carts collection grows to at most this many documents
MaxCarts == 2

\* uuid4() is drawn at most this many times after the shop is set up
MaxNewIds == 2

Procs == 1 .. NProcs

(* --------------------------- request inputs --------------------------- *)

ADMIN_EMAIL == "admin@shop.com"

ADMIN_PASSWORD == "admin123"

Emails == {"a@x.com", ADMIN_EMAIL}

Passwords == {"p1", ADMIN_PASSWORD}

Names == {"A", "B"}

(* --------------------------- configuration ---------------------------- *)

JWT_SECRET == "your-secret-key-change-in-production"

JWT_ALGORITHM == "HS256"

\* timedelta(days=7) in create_token; the clock counts days
TokenDays == 7

\* uuid4() values are modelled by a counter: every draw is a new value
FirstId == 1

Nil == [nil |-> TRUE]

NoIdentity == [user_id |-> 0, email |-> "", role |-> "", exp |-> 0]

NoSession == [held |-> FALSE]

(* ------------------------------ the store ----------------------------- *)
(* A collection is the sequence of its documents in natural order.  A     *)
(* filter is a predicate on documents.  find_one, update_one and          *)
(* delete_one act on one matching document; which one, when several match,*)
(* is the store's choice, so the handlers choose among FindOne's results. *)

Matching(coll, Filter(_)) == {i \in DOMAIN coll : Filter(coll[i])}

\* the indices find_one / update_one / delete_one may pick; 0 means "no
\* document matches" (None, matched_count = 0, deleted_count = 0)
FindOne(coll, Filter(_)) ==
    IF Matching(coll, Filter) = {} THEN {0} ELSE Matching(coll, Filter)

InsertOne(coll, doc) == Append(coll, doc)

DeleteAt(coll, i) == SubSeq(coll, 1, i - 1) \o SubSeq(coll, i + 1, Len(coll))

\* $set: the fields of `fields` overwrite or extend those of doc
SetFields(doc, fields) ==
    [k \in (DOMAIN doc) \cup (DOMAIN fields) |->
        IF k \in DOMAIN fields THEN fields[k] ELSE doc[k]]

(* --------------------------- password hashing ------------------------- *)
(* bcrypt: a salted one-way hash; the stored string carries the salt and  *)
(* the digest of (salt, password).                                        *)

hash_password(password, salt) ==
    [scheme |-> "bcrypt", salt |-> salt, digest |-> <<salt, password>>]

verify_password(plain_password, hashed_password) ==
    hashed_password.digest = <<hashed_password.salt, plain_password>>

(* ----------------------------- token service -------------------------- *)
(* A JWT is a payload and an HMAC of the payload under a key.             *)

Sign(payload, key) == [alg |-> JWT_ALGORITHM, key |-> key, over |-> payload]

create_token_short(user_id, email, role, now) ==
    LET payload == [user_id |-> user_id, email |-> email, role |-> role,
                    exp |-> now + 1]
    IN  [wellformed |-> TRUE, payload |-> payload,
         sig |-> Sign(payload, JWT_SECRET)]

create_token(user_id, email, role, now) ==
    LET payload == [user_id |-> user_id, email |-> email, role |-> role,
                    exp |-> now + TokenDays]
    IN  [wellformed |-> TRUE, payload |-> payload,
         sig |-> Sign(payload, JWT_SECRET)]

\* jwt.decode inside get_current_user.  The signature is verified before
\* the claims.  Whether a token is already expired at the very instant
\* now = exp depends on the installed PyJWT (1.x: exp < now, 2.x:
\* exp <= now); `strict` is that choice.
get_current_user(token, now, strict) ==
    IF ~token.wellformed \/ token.sig # Sign(token.payload, JWT_SECRET)
    THEN [status |-> 401, detail |-> "Invalid token", payload |-> NoIdentity]
    ELSE IF token.payload.exp < now \/ (strict /\ token.payload.exp = now)
    THEN [status |-> 401, detail |-> "Token expired", payload |-> NoIdentity]
    ELSE [status |-> 200, detail |-> "", payload |-> token.payload]

get_admin_user_open(current_user) ==
    [status |-> 200, detail |-> "", payload |-> current_user]

\* Depends(get_current_user) has succeeded with current_user
get_admin_user(current_user) ==
    IF current_user.role # "admin"
    THEN [status |-> 403, detail |-> "Admin access required",
          payload |-> NoIdentity]
    ELSE [status |-> 200, detail |-> "", payload |-> current_user]

(* ------------------------------- state --------------------------------- *)

VARIABLES
    users,          \* db.users
    products,       \* db.products
    categories,     \* db.categories
    carts,          \* db.carts
    orders,         \* db.orders
    site_settings,  \* db.site_settings
    clock,          \* datetime.now(timezone.utc), in days
    nextId,         \* the next value uuid.uuid4() returns (fresh each call)
    pc,             \* per request slot: the store call it is suspended at
    loc,            \* per request slot: the handler's local variables
    session,        \* per client: the token and user of its last login
    initDone,       \* number of initialize() calls that have returned
    ev              \* the store call or response of the last step

collections == <<users, products, categories, carts, orders, site_settings>>

vars == <<users, products, categories, carts, orders, site_settings, clock,
          nextId, pc, loc, session, initDone, ev>>

Ev(op, p, status, detail, who, req, ret) ==
    [op |-> op, p |-> p, status |-> status, detail |-> detail, who |-> who,
     req |-> req, ret |-> ret]

\* a store call after which the handler goes on to another one: no
\* response yet (status 0)
Step(op, p, call, who, req) == Ev(op, p, 0, call, who, req, Nil)

Goto(p, label, locals) ==
    /\ pc' = [pc EXCEPT ![p] = label]
    /\ loc' = [loc EXCEPT ![p] = locals]

Return(p) == Goto(p, "idle", Nil)

Init ==
    /\ users = <<>>
    /\ products = <<>>
    /\ categories = <<>>
    /\ carts = <<>>
    /\ orders = <<>>
    /\ site_settings = <<>>
    /\ clock = 0
    /\ nextId = FirstId
    /\ pc = [p \in Procs |-> "idle"]
    /\ loc = [p \in Procs |-> Nil]
    /\ session = [p \in Procs |-> NoSession]
    /\ initDone = 0
    /\ ev = Step("start", 0, "", NoIdentity, Nil)

(* ------------------------------ documents ------------------------------ *)

\* bcrypt draws a random salt for every hash; like uuid4() the draw is
\* modelled by the fresh counter, so no two records share a salt
FreshSalt == nextId

\* User(...).model_dump() plus password_hash
UserDoc(id, email, name, role, now, password_hash) ==
    [id |-> id, email |-> email, name |-> name, role |-> role,
     created_at |-> now, password_hash |-> password_hash]

\* User(**user_doc): extra="ignore" drops password_hash
User(doc) ==
    [id |-> doc.id, email |-> doc.email, name |-> doc.name,
     role |-> doc.role, created_at |-> doc.created_at]

NewSession(token, user, now) ==
    [held |-> TRUE, token |-> token, user |-> user, at |-> now]

(* ------------------------------- signup -------------------------------- *)

PendingSignups == {q \in Procs : pc[q] = "signup_insert"}

\* POST /auth/signup, up to the await of db.users.find_one
signup_find(p, email, password, name) ==
    /\ pc[p] = "idle"
    /\ Len(users) + Cardinality(PendingSignups) < MaxUsers
    /\ \E i \in FindOne(users, LAMBDA d : d.email = email) :
        IF i # 0
        THEN /\ ev' = Ev("signup", p, 400, "Email already registered",
                         NoIdentity,
                         [email |-> email, password |-> password,
                          name |-> name], Nil)
             /\ Return(p)
        ELSE /\ ev' = Step("signup", p, "find_one", NoIdentity,
                           [email |-> email, password |-> password,
                            name |-> name])
             /\ Goto(p, "signup_insert",
                     [email |-> email, password |-> password, name |-> name])
    /\ UNCHANGED <<collections, clock, nextId, session, initDone>>

\* POST /auth/signup, from User(...) to the response
signup_insert(p) ==
    /\ pc[p] = "signup_insert"
    /\ LET doc == UserDoc(nextId, loc[p].email, loc[p].name, "user", clock,
                          hash_password(loc[p].password, FreshSalt))
           user == User(doc)
           token == create_token(user.id, user.email, user.role, clock)
       IN  /\ users' = InsertOne(users, doc)
           /\ nextId' = nextId + 1
           /\ session' = [session EXCEPT ![p] = NewSession(token, user, clock)]
           /\ ev' = Ev("signup", p, 200, "", NoIdentity, loc[p],
                       [token |-> token, user |-> user])
    /\ Return(p)
    /\ UNCHANGED <<products, categories, carts, orders, site_settings, clock,
                   initDone>>

(* -------------------------------- login -------------------------------- *)

login_leaky(p, email, password) ==
    /\ pc[p] = "idle"
    /\ \E i \in FindOne(users, LAMBDA d : d.email = email) :
        LET req == [email |-> email, password |-> password]
        IN  IF i = 0
            THEN /\ ev' = Ev("login", p, 404, "User not found", NoIdentity,
                             req, Nil)
                 /\ UNCHANGED session
            ELSE IF ~verify_password(password, users[i].password_hash)
            THEN /\ ev' = Ev("login", p, 401, "Invalid credentials",
                             NoIdentity, req, Nil)
                 /\ UNCHANGED session
            ELSE LET user == User(users[i])
                     token == create_token(user.id, user.email, user.role,
                                           clock)
                 IN  /\ ev' = Ev("login", p, 200, "", NoIdentity, req,
                                 [token |-> token, user |-> user])
                     /\ session' = [session EXCEPT
                                      ![p] = NewSession(token, user, clock)]
    /\ UNCHANGED <<collections, clock, nextId, pc, loc, initDone>>

\* POST /auth/login: one store call, then the response
login(p, email, password) ==
    /\ pc[p] = "idle"
    /\ \E i \in FindOne(users, LAMBDA d : d.email = email) :
        LET req == [email |-> email, password |-> password]
        IN  IF i = 0
            THEN /\ ev' = Ev("login", p, 401, "Invalid credentials",
                             NoIdentity, req, Nil)
                 /\ UNCHANGED session
            ELSE IF ~verify_password(password, users[i].password_hash)
            THEN /\ ev' = Ev("login", p, 401, "Invalid credentials",
                             NoIdentity, req, Nil)
                 /\ UNCHANGED session
            ELSE LET user == User(users[i])
                     token == create_token(user.id, user.email, user.role,
                                           clock)
                 IN  /\ ev' = Ev("login", p, 200, "", NoIdentity, req,
                                 [token |-> token, user |-> user])
                     /\ session' = [session EXCEPT
                                      ![p] = NewSession(token, user, clock)]
    /\ UNCHANGED <<collections, clock, nextId, pc, loc, initDone>>

(* ----------------------------- seed loader ----------------------------- *)

\* the `categories` list of initialize_data, without the generated ids
BaselineCategories ==
    <<
      [name |-> "Electronics", slug |-> "electronics",
       image |-> "https://images.unsplash.com/photo-1605170876472-db58e15c430e?crop=entropy&cs=srgb&fm=jpg&q=85",
       description |-> "Latest gadgets and tech"],
      [name |-> "Accessories", slug |-> "accessories",
       image |-> "https://images.unsplash.com/photo-1673997303871-178507ca875a?crop=entropy&cs=srgb&fm=jpg&q=85",
       description |-> "Fashion accessories"],
      [name |-> "Kitchen", slug |-> "kitchen",
       image |-> "https://images.unsplash.com/photo-1556911220-bff31c812dba?crop=entropy&cs=srgb&fm=jpg&q=85",
       description |-> "Kitchen essentials"],
      [name |-> "Furniture", slug |-> "furniture",
       image |-> "https://images.unsplash.com/photo-1723804685588-b8e95b2044f3?crop=entropy&cs=srgb&fm=jpg&q=85",
       description |-> "Modern furniture"],
      [name |-> "Fashion", slug |-> "fashion",
       image |-> "https://images.unsplash.com/photo-1542755687-a33ff0c970ec?crop=entropy&cs=srgb&fm=jpg&q=85",
       description |-> "Trendy clothing"],
      [name |-> "Others", slug |-> "others",
       image |-> "https://images.unsplash.com/photo-1550989460-0adf9ea622e2?crop=entropy&cs=srgb&fm=jpg&q=85",
       description |-> "Miscellaneous items"]
    >>

\* the `products` list of initialize_data, without the generated ids;
\* prices in cents
BaselineProducts ==
    <<
      [name |-> "Wireless Headphones",
       description |-> "Premium noise-canceling headphones", price |-> 19999,
       category |-> "electronics",
       image |-> "https://images.unsplash.com/photo-1505740420928-5e560c06d30e?w=500",
       stock |-> 50, featured |-> TRUE],
      [name |-> "Smart Watch", description |-> "Fitness tracking smartwatch",
       price |-> 29999, category |-> "electronics",
       image |-> "https://images.unsplash.com/photo-1523275335684-37898b6baf30?w=500",
       stock |-> 30, featured |-> TRUE],
      [name |-> "Laptop Stand",
       description |-> "Ergonomic aluminum laptop stand", price |-> 4999,
       category |-> "electronics",
       image |-> "https://images.unsplash.com/photo-1527864550417-7fd91fc51a46?w=500",
       stock |-> 100, featured |-> FALSE],
      [name |-> "Mechanical Keyboard", description |-> "RGB gaming keyboard",
       price |-> 12999, category |-> "electronics",
       image |-> "https://images.unsplash.com/photo-1587829741301-dc798b83add3?w=500",
       stock |-> 45, featured |-> TRUE],
      [name |-> "Wireless Mouse", description |-> "Ergonomic wireless mouse",
       price |-> 3999, category |-> "electronics",
       image |-> "https://images.unsplash.com/photo-1527814050087-3793815479db?w=500",
       stock |-> 80, featured |-> FALSE],
      [name |-> "Leather Wallet",
       description |-> "Genuine leather bifold wallet", price |-> 5999,
       category |-> "accessories",
       image |-> "https://images.unsplash.com/photo-1627123424574-724758594e93?w=500",
       stock |-> 60, featured |-> TRUE],
      [name |-> "Sunglasses", description |-> "Classic aviator sunglasses",
       price |-> 8999, category |-> "accessories",
       image |-> "https://images.unsplash.com/photo-1572635196237-14b3f281503f?w=500",
       stock |-> 70, featured |-> FALSE],
      [name |-> "Backpack", description |-> "Durable travel backpack",
       price |-> 7999, category |-> "accessories",
       image |-> "https://images.unsplash.com/photo-1553062407-98eeb64c6a62?w=500",
       stock |-> 40, featured |-> TRUE],
      [name |-> "Coffee Maker",
       description |-> "Automatic drip coffee maker", price |-> 14999,
       category |-> "kitchen",
       image |-> "https://images.unsplash.com/photo-1517668808822-9ebb02f2a0e6?w=500",
       stock |-> 25, featured |-> FALSE],
      [name |-> "Blender", description |-> "High-speed professional blender",
       price |-> 9999, category |-> "kitchen",
       image |-> "https://images.unsplash.com/photo-1585515320310-259814833e62?w=500",
       stock |-> 35, featured |-> TRUE],
      [name |-> "Knife Set", description |-> "Professional chef knife set",
       price |-> 15999, category |-> "kitchen",
       image |-> "https://images.unsplash.com/photo-1593618998160-e34014e67546?w=500",
       stock |-> 20, featured |-> FALSE],
      [name |-> "Office Chair",
       description |-> "Ergonomic mesh office chair", price |-> 34999,
       category |-> "furniture",
       image |-> "https://images.unsplash.com/photo-1580480055273-228ff5388ef8?w=500",
       stock |-> 15, featured |-> TRUE],
      [name |-> "Standing Desk",
       description |-> "Adjustable height standing desk", price |-> 49999,
       category |-> "furniture",
       image |-> "https://images.unsplash.com/photo-1595515106969-1ce29566ff1c?w=500",
       stock |-> 10, featured |-> TRUE],
      [name |-> "Bookshelf", description |-> "Modern 5-tier bookshelf",
       price |-> 19999, category |-> "furniture",
       image |-> "https://images.unsplash.com/photo-1594620302200-9a762244a156?w=500",
       stock |-> 18, featured |-> FALSE],
      [name |-> "T-Shirt", description |-> "Cotton casual t-shirt",
       price |-> 2999, category |-> "fashion",
       image |-> "https://images.unsplash.com/photo-1521572163474-6864f9cf17ab?w=500",
       stock |-> 100, featured |-> FALSE],
      [name |-> "Jeans", description |-> "Classic slim fit jeans",
       price |-> 7999, category |-> "fashion",
       image |-> "https://images.unsplash.com/photo-1542272604-787c3835535d?w=500",
       stock |-> 90, featured |-> TRUE],
      [name |-> "Sneakers", description |-> "Comfortable running sneakers",
       price |-> 11999, category |-> "fashion",
       image |-> "https://images.unsplash.com/photo-1460353581641-37baddab0fa2?w=500",
       stock |-> 50, featured |-> TRUE],
      [name |-> "Hoodie", description |-> "Warm pullover hoodie",
       price |-> 6999, category |-> "fashion",
       image |-> "https://images.unsplash.com/photo-1556821840-3a63f95609a7?w=500",
       stock |-> 65, featured |-> FALSE],
      [name |-> "Phone Case",
       description |-> "Protective silicone phone case", price |-> 1999,
       category |-> "others",
       image |-> "https://images.unsplash.com/photo-1601784551446-20c9e07cdbdb?w=500",
       stock |-> 150, featured |-> FALSE],
      [name |-> "Water Bottle",
       description |-> "Insulated stainless steel bottle", price |-> 3499,
       category |-> "others",
       image |-> "https://images.unsplash.com/photo-1602143407151-7111542de6e8?w=500",
       stock |-> 120, featured |-> FALSE],
      [name |-> "Yoga Mat", description |-> "Non-slip exercise yoga mat",
       price |-> 4499, category |-> "others",
       image |-> "https://images.unsplash.com/photo-1601925260368-ae2f83cf8b7f?w=500",
       stock |-> 75, featured |-> TRUE],
      [name |-> "Desk Lamp", description |-> "LED adjustable desk lamp",
       price |-> 5499, category |-> "others",
       image |-> "https://images.unsplash.com/photo-1507473885765-e6ed057f782c?w=500",
       stock |-> 55, featured |-> FALSE],
      [name |-> "Power Bank", description |-> "20000mAh portable charger",
       price |-> 4999, category |-> "electronics",
       image |-> "https://images.unsplash.com/photo-1609091839311-d5365f9ff1c5?w=500",
       stock |-> 85, featured |-> FALSE],
      [name |-> "USB-C Cable", description |-> "Fast charging USB-C cable",
       price |-> 1499, category |-> "electronics",
       image |-> "https://images.unsplash.com/photo-1625948515291-69613efd103f?w=500",
       stock |-> 200, featured |-> FALSE],
      [name |-> "Webcam", description |-> "1080p HD streaming webcam",
       price |-> 8999, category |-> "electronics",
       image |-> "https://images.unsplash.com/photo-1588508065123-287b28e013da?w=500",
       stock |-> 40, featured |-> TRUE],
      [name |-> "Microphone", description |-> "USB condenser microphone",
       price |-> 12999, category |-> "electronics",
       image |-> "https://images.unsplash.com/photo-1590602847861-f357a9332bbc?w=500",
       stock |-> 30, featured |-> FALSE],
      [name |-> "Monitor", description |-> "27-inch 4K monitor",
       price |-> 39999, category |-> "electronics",
       image |-> "https://images.unsplash.com/photo-1527443224154-c4a3942d3acf?w=500",
       stock |-> 20, featured |-> TRUE],
      [name |-> "Tablet", description |-> "10-inch Android tablet",
       price |-> 29999, category |-> "electronics",
       image |-> "https://images.unsplash.com/photo-1561154464-82e9adf32764?w=500",
       stock |-> 25, featured |-> TRUE],
      [name |-> "Gaming Mouse Pad", description |-> "Extended RGB mouse pad",
       price |-> 2999, category |-> "electronics",
       image |-> "https://images.unsplash.com/photo-1615663245857-ac93bb7c39e7?w=500",
       stock |-> 95, featured |-> FALSE],
      [name |-> "Speaker System",
       description |-> "2.1 desktop speaker system", price |-> 14999,
       category |-> "electronics",
       image |-> "https://images.unsplash.com/photo-1608043152269-423dbba4e7e1?w=500",
       stock |-> 35, featured |-> FALSE]
    >>

\* the documents of an insert_many: each gets its own uuid4
WithIds(rows, first) ==
    [i \in DOMAIN rows |-> SetFields([id |-> first + i - 1], rows[i])]

InInit ==
    {q \in Procs : pc[q] \in {"init_admin_insert", "init_cat_count",
                              "init_cat_insert", "init_prod_count",
                              "init_prod_insert"}}

InitStep(p, call) == Step("initialize_data", p, call, NoIdentity, Nil)

InitEv(p, status, detail) ==
    Ev("initialize_data", p, status, detail, NoIdentity, Nil, Nil)

\* POST /init-data, up to the await of db.users.find_one
init_find_admin(p) ==
    /\ pc[p] = "idle"
    /\ initDone + Cardinality(InInit) < MaxInitCalls
    /\ \E i \in FindOne(users, LAMBDA d : d.email = ADMIN_EMAIL) :
        IF i = 0
        THEN Goto(p, "init_admin_insert", Nil)
        ELSE Goto(p, "init_cat_count", Nil)
    /\ ev' = InitStep(p, "find_one")
    /\ UNCHANGED <<collections, clock, nextId, session, initDone>>

\* the body of `if not existing_admin`
init_insert_admin(p) ==
    /\ pc[p] = "init_admin_insert"
    /\ users' = InsertOne(users,
                    UserDoc(nextId, ADMIN_EMAIL, "Admin", "admin", clock,
                            hash_password(ADMIN_PASSWORD, FreshSalt)))
    /\ nextId' = nextId + 1
    /\ Goto(p, "init_cat_count", Nil)
    /\ ev' = InitStep(p, "insert_one")
    /\ UNCHANGED <<products, categories, carts, orders, site_settings, clock,
                   session, initDone>>

\* db.categories.count_documents({})
init_count_categories(p) ==
    /\ pc[p] = "init_cat_count"
    /\ IF Len(categories) = 0
       THEN Goto(p, "init_cat_insert", Nil)
       ELSE Goto(p, "init_prod_count", Nil)
    /\ ev' = InitStep(p, "count_documents")
    /\ UNCHANGED <<collections, clock, nextId, session, initDone>>

\* db.categories.insert_many(categories)
init_insert_categories(p) ==
    /\ pc[p] = "init_cat_insert"
    /\ categories' = categories \o WithIds(BaselineCategories, nextId)
    /\ nextId' = nextId + Len(BaselineCategories)
    /\ Goto(p, "init_prod_count", Nil)
    /\ ev' = InitStep(p, "insert_many")
    /\ UNCHANGED <<users, products, carts, orders, site_settings, clock,
                   session, initDone>>

\* db.products.count_documents({}); with products present the handler
\* returns
init_count_products(p) ==
    /\ pc[p] = "init_prod_count"
    /\ IF Len(products) = 0
       THEN /\ Goto(p, "init_prod_insert", Nil)
            /\ ev' = InitStep(p, "count_documents")
            /\ UNCHANGED initDone
       ELSE /\ Return(p)
            /\ ev' = InitEv(p, 200, "Data initialized")
            /\ initDone' = initDone + 1
    /\ UNCHANGED <<collections, clock, nextId, session>>

\* db.products.insert_many(products), then the response
init_insert_products(p) ==
    /\ pc[p] = "init_prod_insert"
    /\ products' = products \o WithIds(BaselineProducts, nextId)
    /\ nextId' = nextId + Len(BaselineProducts)
    /\ Return(p)
    /\ ev' = InitEv(p, 200, "Data initialized")
    /\ initDone' = initDone + 1
    /\ UNCHANGED <<users, categories, carts, orders, site_settings, clock,
                   session>>

(* ---------------------------- access guard ----------------------------- *)
(* The bearer tokens a client may put in a request: the one it holds, the *)
(* one it holds with the payload altered and the signature kept, a        *)
(* payload of its choice signed with a key that is not the server's, and  *)
(* a string that is no JWT.                                               *)

ForgedPayload ==
    [user_id |-> 1, email |-> ADMIN_EMAIL, role |-> "admin",
     exp |-> clock + TokenDays]

Presented(p) ==
    (IF session[p].held
     THEN {[kind |-> "held", token |-> session[p].token],
           [kind |-> "tampered",
            token |-> [session[p].token EXCEPT
                         !.payload.role =
                             IF @ = "admin" THEN "user" ELSE "admin"]],
           [kind |-> "extended",
            token |-> [session[p].token EXCEPT
                         !.payload.exp = @ + TokenDays]]}
     ELSE {})
    \cup
    {[kind |-> "wrongkey",
      token |-> [wellformed |-> TRUE, payload |-> ForgedPayload,
                 sig |-> Sign(ForgedPayload, "guessed-key")]],
     [kind |-> "malformed",
      token |-> [wellformed |-> FALSE, payload |-> NoIdentity,
                 sig |-> Sign(NoIdentity, "")]]}

\* the credentials of the shop's requests: a client's own token, and the
\* same token with the role in its payload switched
SignedIn(p) == {c \in Presented(p) : c.kind \in {"held", "tampered"}}

\* the library's two readings of "expired" differ only at the instant
\* now = exp of the presented token
AtExpiry(cred) ==
    IF cred.token.payload.exp = clock THEN BOOLEAN ELSE {TRUE}

\* GET /auth/me
get_me(p, cred, strict) ==
    /\ pc[p] = "idle"
    /\ LET auth == get_current_user(cred.token, clock, strict)
       IN  IF auth.status # 200
           THEN ev' = Ev("get_me", p, auth.status, auth.detail, NoIdentity,
                         cred, Nil)
           ELSE \E i \in FindOne(users,
                                 LAMBDA d : d.id = auth.payload.user_id) :
                   IF i = 0
                   THEN ev' = Ev("get_me", p, 404, "User not found",
                                 auth.payload, cred, Nil)
                   ELSE ev' = Ev("get_me", p, 200, "", auth.payload, cred,
                                 User(users[i]))
    /\ UNCHANGED <<collections, clock, nextId, pc, loc, session, initDone>>

(* -------------------------------- clock -------------------------------- *)

Tick ==
    /\ clock < MaxClock
    /\ clock' = clock + 1
    /\ ev' = Step("tick", 0, "", NoIdentity, Nil)
    /\ UNCHANGED <<collections, nextId, pc, loc, session, initDone>>

(* ------------------------------ id ranges ------------------------------ *)
(* The ids the first initialize() on an empty store draws: the admin gets *)
(* 1, the categories and the products the next ones, then come the        *)
(* clients that sign up afterwards.                                       *)

FirstCategoryId == FirstId + 1

FirstProductId == FirstCategoryId + Len(BaselineCategories)

FirstCustomerId == FirstProductId + Len(BaselineProducts)

ShopUserId(p) == IF p = 1 THEN FirstId ELSE FirstCustomerId + p - 2

ShopNextId == FirstCustomerId + NProcs - 1

IdLimit == ShopNextId + MaxNewIds

(* ---------------------- requests of signed-in clients ------------------ *)

\* Depends(get_current_user): the identity, or the 401 response
Authenticate(cred, strict) == get_current_user(cred.token, clock, strict)

\* Depends(get_admin_user): the admin identity, or the 401 or 403 response
RequireAdmin(cred, strict) ==
    LET auth == Authenticate(cred, strict)
    IN  IF auth.status # 200 THEN auth ELSE get_admin_user(auth.payload)

\* the identity get_current_user resolved, whatever get_admin_user said
Caller(cred, strict) == Authenticate(cred, strict).payload

\* the response of a request refused by the access guard
Refuse(op, p, guard, who, req) ==
    /\ ev' = Ev(op, p, guard.status, guard.detail, who, req, Nil)
    /\ UNCHANGED <<collections, nextId, pc, loc>>

(* ------------------------------- catalog ------------------------------- *)

ById(coll, id) == FindOne(coll, LAMBDA d : d.id = id)

\* Product(**product_data.model_dump()).model_dump()
Product(id, data, now) ==
    [id |-> id, name |-> data.name, description |-> data.description,
     price |-> data.price, category |-> data.category, image |-> data.image,
     stock |-> data.stock, featured |-> data.featured, created_at |-> now]

\* Category(**category_data.model_dump()).model_dump()
Category(id, data) ==
    [id |-> id, name |-> data.name, slug |-> data.slug, image |-> data.image,
     description |-> data.description]

\* POST /products
create_product(p, cred, strict, product_data) ==
    /\ pc[p] = "idle"
    /\ LET guard == RequireAdmin(cred, strict)
           who == Caller(cred, strict)
           req == [cred |-> cred, body |-> product_data]
           product == Product(nextId, product_data, clock)
       IN  IF guard.status # 200
           THEN Refuse("create_product", p, guard, who, req)
           ELSE /\ nextId < IdLimit
                /\ products' = InsertOne(products, product)
                /\ nextId' = nextId + 1
                /\ ev' = Ev("create_product", p, 200, "", who, req, product)
                /\ UNCHANGED <<users, categories, carts, orders,
                               site_settings, pc, loc>>
    /\ UNCHANGED <<clock, session, initDone>>

\* PUT /products/{product_id}, up to the await of update_one
update_product(p, cred, strict, product_id, product_data) ==
    /\ pc[p] = "idle"
    /\ LET guard == RequireAdmin(cred, strict)
           who == Caller(cred, strict)
           req == [cred |-> cred, id |-> product_id, body |-> product_data]
       IN  IF guard.status # 200
           THEN Refuse("update_product", p, guard, who, req)
           ELSE \E i \in ById(products, product_id) :
                   IF i = 0
                   THEN /\ ev' = Ev("update_product", p, 404,
                                    "Product not found", who, req, Nil)
                        /\ UNCHANGED <<collections, nextId, pc, loc>>
                   ELSE /\ products' = [products EXCEPT
                                ![i] = SetFields(@, product_data)]
                        /\ ev' = Step("update_product", p, "update_one",
                                      who, req)
                        /\ Goto(p, "update_product_find",
                                [who |-> who, req |-> req])
                        /\ UNCHANGED <<users, categories, carts, orders,
                                       site_settings, nextId>>
    /\ UNCHANGED <<clock, session, initDone>>

\* PUT /products/{product_id}: find_one and Product(**updated); with the
\* product deleted in between, Product(**None) raises (500)
update_product_find(p) ==
    /\ pc[p] = "update_product_find"
    /\ \E i \in ById(products, loc[p].req.id) :
        IF i = 0
        THEN ev' = Ev("update_product", p, 500, "Internal Server Error",
                      loc[p].who, loc[p].req, Nil)
        ELSE ev' = Ev("update_product", p, 200, "", loc[p].who, loc[p].req,
                      products[i])
    /\ Return(p)
    /\ UNCHANGED <<collections, clock, nextId, session, initDone>>

\* DELETE /products/{product_id}
delete_product(p, cred, strict, product_id) ==
    /\ pc[p] = "idle"
    /\ LET guard == RequireAdmin(cred, strict)
           who == Caller(cred, strict)
           req == [cred |-> cred, id |-> product_id]
       IN  IF guard.status # 200
           THEN Refuse("delete_product", p, guard, who, req)
           ELSE \E i \in ById(products, product_id) :
                   IF i = 0
                   THEN /\ ev' = Ev("delete_product", p, 404,
                                    "Product not found", who, req, Nil)
                        /\ UNCHANGED <<collections, nextId, pc, loc>>
                   ELSE /\ products' = DeleteAt(products, i)
                        /\ ev' = Ev("delete_product", p, 200,
                                    "Product deleted", who, req, Nil)
                        /\ UNCHANGED <<users, categories, carts, orders,
                                       site_settings, nextId, pc, loc>>
    /\ UNCHANGED <<clock, session, initDone>>

\* POST /categories
create_category(p, cred, strict, category_data) ==
    /\ pc[p] = "idle"
    /\ LET guard == RequireAdmin(cred, strict)
           who == Caller(cred, strict)
           req == [cred |-> cred, body |-> category_data]
           category == Category(nextId, category_data)
       IN  IF guard.status # 200
           THEN Refuse("create_category", p, guard, who, req)
           ELSE /\ nextId < IdLimit
                /\ categories' = InsertOne(categories, category)
                /\ nextId' = nextId + 1
                /\ ev' = Ev("create_category", p, 200, "", who, req,
                            category)
                /\ UNCHANGED <<users, products, carts, orders,
                               site_settings, pc, loc>>
    /\ UNCHANGED <<clock, session, initDone>>

\* PUT /categories/{category_id}, up to the await of update_one
update_category(p, cred, strict, category_id, category_data) ==
    /\ pc[p] = "idle"
    /\ LET guard == RequireAdmin(cred, strict)
           who == Caller(cred, strict)
           req == [cred |-> cred, id |-> category_id, body |-> category_data]
       IN  IF guard.status # 200
           THEN Refuse("update_category", p, guard, who, req)
           ELSE \E i \in ById(categories, category_id) :
                   IF i = 0
                   THEN /\ ev' = Ev("update_category", p, 404,
                                    "Category not found", who, req, Nil)
                        /\ UNCHANGED <<collections, nextId, pc, loc>>
                   ELSE /\ categories' = [categories EXCEPT
                                ![i] = SetFields(@, category_data)]
                        /\ ev' = Step("update_category", p, "update_one",
                                      who, req)
                        /\ Goto(p, "update_category_find",
                                [who |-> who, req |-> req])
                        /\ UNCHANGED <<users, products, carts, orders,
                                       site_settings, nextId>>
    /\ UNCHANGED <<clock, session, initDone>>

\* PUT /categories/{category_id}: find_one and Category(**updated)
update_category_find(p) ==
    /\ pc[p] = "update_category_find"
    /\ \E i \in ById(categories, loc[p].req.id) :
        IF i = 0
        THEN ev' = Ev("update_category", p, 500, "Internal Server Error",
                      loc[p].who, loc[p].req, Nil)
        ELSE ev' = Ev("update_category", p, 200, "", loc[p].who, loc[p].req,
                      categories[i])
    /\ Return(p)
    /\ UNCHANGED <<collections, clock, nextId, session, initDone>>

\* DELETE /categories/{category_id}
delete_category(p, cred, strict, category_id) ==
    /\ pc[p] = "idle"
    /\ LET guard == RequireAdmin(cred, strict)
           who == Caller(cred, strict)
           req == [cred |-> cred, id |-> category_id]
       IN  IF guard.status # 200
           THEN Refuse("delete_category", p, guard, who, req)
           ELSE \E i \in ById(categories, category_id) :
                   IF i = 0
                   THEN /\ ev' = Ev("delete_category", p, 404,
                                    "Category not found", who, req, Nil)
                        /\ UNCHANGED <<collections, nextId, pc, loc>>
                   ELSE /\ categories' = DeleteAt(categories, i)
                        /\ ev' = Ev("delete_category", p, 200,
                                    "Category deleted", who, req, Nil)
                        /\ UNCHANGED <<users, products, carts, orders,
                                       site_settings, nextId, pc, loc>>
    /\ UNCHANGED <<clock, session, initDone>>

(* --------------------------------- cart -------------------------------- *)

ByUser(coll, user_id) == FindOne(coll, LAMBDA d : d.user_id = user_id)

\* the Cart model parsed from the request body: user_id and items are
\* required fields of the body, updated_at is taken from the body when it
\* is there and defaults to now when it is not
Cart(body, now) ==
    [user_id |-> body.user_id, items |-> body.items,
     updated_at |-> IF body.updated_at.given THEN body.updated_at.value
                    ELSE now]

\* GET /cart
get_cart(p, cred, strict) ==
    /\ pc[p] = "idle"
    /\ LET auth == Authenticate(cred, strict)
           who == auth.payload
           req == [cred |-> cred]
       IN  IF auth.status # 200
           THEN Refuse("get_cart", p, auth, who, req)
           ELSE /\ \E i \in ByUser(carts, who.user_id) :
                       IF i = 0
                       THEN ev' = Ev("get_cart", p, 200, "", who, req,
                                     [user_id |-> who.user_id,
                                      items |-> <<>>])
                       ELSE ev' = Ev("get_cart", p, 200, "", who, req,
                                     carts[i])
                /\ UNCHANGED <<collections, nextId, pc, loc>>
    /\ UNCHANGED <<clock, session, initDone>>

\* POST /cart: update_one(filter, {"$set": cart_data.model_dump()},
\* upsert=True).  An upsert that matches nothing inserts the filter's
\* fields with the $set applied to them.
update_cart(p, cred, strict, body) ==
    /\ pc[p] = "idle"
    /\ LET auth == Authenticate(cred, strict)
           who == auth.payload
           req == [cred |-> cred, body |-> body]
           cart_data == Cart(body, clock)
       IN  IF auth.status # 200
           THEN Refuse("update_cart", p, auth, who, req)
           ELSE /\ \E i \in ByUser(carts, who.user_id) :
                       IF i = 0
                       THEN /\ Len(carts) < MaxCarts
                            /\ carts' = InsertOne(carts,
                                    SetFields([user_id |-> who.user_id],
                                              cart_data))
                       ELSE carts' = [carts EXCEPT
                                ![i] = SetFields(@, cart_data)]
                /\ ev' = Ev("update_cart", p, 200, "", who, req, cart_data)
                /\ UNCHANGED <<users, products, categories, orders,
                               site_settings, nextId, pc, loc>>
    /\ UNCHANGED <<clock, session, initDone>>

(* -------------------------------- orders ------------------------------- *)

\* order_data: OrderCreate, the request body as the handler receives it:
\* the four declared fields, every other key of the JSON body dropped
OrderCreate(body) ==
    [items |-> body.items, total |-> body.total, address |-> body.address,
     payment_method |-> body.payment_method]

\* Order(user_id=..., **order_data.model_dump()).model_dump()
Order(id, user_id, data, now) ==
    [id |-> id, user_id |-> user_id, items |-> data.items,
     total |-> data.total, address |-> data.address,
     payment_method |-> data.payment_method, status |-> "pending",
     created_at |-> now]

\* POST /orders, up to the await of db.orders.insert_one
create_order(p, cred, strict, body) ==
    /\ pc[p] = "idle"
    /\ LET auth == Authenticate(cred, strict)
           who == auth.payload
           req == [cred |-> cred, body |-> body]
           order_data == OrderCreate(body)
           order == Order(nextId, who.user_id, order_data, clock)
       IN  IF auth.status # 200
           THEN Refuse("create_order", p, auth, who, req)
           ELSE /\ nextId < IdLimit
                /\ orders' = InsertOne(orders, order)
                /\ nextId' = nextId + 1
                /\ ev' = Step("create_order", p, "insert_one", who, req)
                /\ Goto(p, "create_order_delete",
                        [who |-> who, req |-> req, order |-> order])
                /\ UNCHANGED <<users, products, categories, carts,
                               site_settings>>
    /\ UNCHANGED <<clock, session, initDone>>

\* POST /orders: db.carts.delete_one, then the response
create_order_delete(p) ==
    /\ pc[p] = "create_order_delete"
    /\ \E i \in ByUser(carts, loc[p].who.user_id) :
        carts' = IF i = 0 THEN carts ELSE DeleteAt(carts, i)
    /\ ev' = Ev("create_order", p, 200, "", loc[p].who, loc[p].req,
                loc[p].order)
    /\ Return(p)
    /\ UNCHANGED <<users, products, categories, orders, site_settings, clock,
                   nextId, session, initDone>>

\* .sort("created_at", -1).to_list(limit): the documents at `idxs`, newest
\* first, cut to `limit`; documents with equal created_at come in an order
\* of the store's choice
SortedNewestFirst(coll, idxs, limit) ==
    LET n == Cardinality(idxs)
        orderings == {s \in [1 .. n -> idxs] :
                        /\ \A k, l \in 1 .. n : k # l => s[k] # s[l]
                        /\ \A k, l \in 1 .. n :
                             k < l => coll[s[k]].created_at
                                        >= coll[s[l]].created_at}
        m == IF n < limit THEN n ELSE limit
    IN  {[k \in 1 .. m |-> coll[s[k]]] : s \in orderings}

\* GET /orders without the user_id filter of the find
get_orders_unfiltered(p, cred, strict) ==
    /\ pc[p] = "idle"
    /\ LET auth == Authenticate(cred, strict)
           who == auth.payload
           req == [cred |-> cred]
       IN  IF auth.status # 200
           THEN Refuse("get_orders", p, auth, who, req)
           ELSE /\ \E found \in SortedNewestFirst(orders, DOMAIN orders,
                                                  100) :
                       ev' = Ev("get_orders", p, 200, "", who, req, found)
                /\ UNCHANGED <<collections, nextId, pc, loc>>
    /\ UNCHANGED <<clock, session, initDone>>

\* GET /orders
get_orders(p, cred, strict) ==
    /\ pc[p] = "idle"
    /\ LET auth == Authenticate(cred, strict)
           who == auth.payload
           req == [cred |-> cred]
       IN  IF auth.status # 200
           THEN Refuse("get_orders", p, auth, who, req)
           ELSE /\ \E found \in SortedNewestFirst(orders,
                        Matching(orders,
                                 LAMBDA d : d.user_id = who.user_id), 100) :
                       ev' = Ev("get_orders", p, 200, "", who, req, found)
                /\ UNCHANGED <<collections, nextId, pc, loc>>
    /\ UNCHANGED <<clock, session, initDone>>

\* GET /admin/orders
get_all_orders(p, cred, strict) ==
    /\ pc[p] = "idle"
    /\ LET guard == RequireAdmin(cred, strict)
           who == Caller(cred, strict)
           req == [cred |-> cred]
       IN  IF guard.status # 200
           THEN Refuse("get_all_orders", p, guard, who, req)
           ELSE /\ \E found \in SortedNewestFirst(orders, DOMAIN orders,
                                                  1000) :
                       ev' = Ev("get_all_orders", p, 200, "", who, req,
                                found)
                /\ UNCHANGED <<collections, nextId, pc, loc>>
    /\ UNCHANGED <<clock, session, initDone>>

\* PUT /admin/orders/{order_id}?status=... with update_many({}, ...) in the
\* place of update_one({"id": order_id}, ...)
update_order_status_many(p, cred, strict, order_id, status) ==
    /\ pc[p] = "idle"
    /\ LET guard == RequireAdmin(cred, strict)
           who == Caller(cred, strict)
           req == [cred |-> cred, id |-> order_id, status |-> status]
       IN  IF guard.status # 200
           THEN Refuse("update_order_status", p, guard, who, req)
           ELSE IF orders = <<>>
                THEN /\ ev' = Ev("update_order_status", p, 404,
                                 "Order not found", who, req, Nil)
                     /\ UNCHANGED <<collections, nextId, pc, loc>>
                ELSE /\ orders' = [i \in DOMAIN orders |->
                                     SetFields(orders[i],
                                               [status |-> status])]
                     /\ ev' = Ev("update_order_status", p, 200,
                                 "Order updated", who, req, Nil)
                     /\ UNCHANGED <<users, products, categories, carts,
                                    site_settings, nextId, pc, loc>>
    /\ UNCHANGED <<clock, session, initDone>>

\* PUT /admin/orders/{order_id}?status=...
update_order_status(p, cred, strict, order_id, status) ==
    /\ pc[p] = "idle"
    /\ LET guard == RequireAdmin(cred, strict)
           who == Caller(cred, strict)
           req == [cred |-> cred, id |-> order_id, status |-> status]
       IN  IF guard.status # 200
           THEN Refuse("update_order_status", p, guard, who, req)
           ELSE \E i \in ById(orders, order_id) :
                   IF i = 0
                   THEN /\ ev' = Ev("update_order_status", p, 404,
                                    "Order not found", who, req, Nil)
                        /\ UNCHANGED <<collections, nextId, pc, loc>>
                   ELSE /\ orders' = [orders EXCEPT
                                ![i] = SetFields(@, [status |-> status])]
                        /\ ev' = Ev("update_order_status", p, 200,
                                    "Order updated", who, req, Nil)
                        /\ UNCHANGED <<users, products, categories, carts,
                                       site_settings, nextId, pc, loc>>
    /\ UNCHANGED <<clock, session, initDone>>

(* --------------------------------- users ------------------------------- *)

\* GET /admin/users: find({}, {"password_hash": 0}).to_list(1000), each
\* validated as User by the response model
get_all_users(p, cred, strict) ==
    /\ pc[p] = "idle"
    /\ LET guard == RequireAdmin(cred, strict)
           who == Caller(cred, strict)
           req == [cred |-> cred]
       IN  IF guard.status # 200
           THEN Refuse("get_all_users", p, guard, who, req)
           ELSE /\ ev' = Ev("get_all_users", p, 200, "", who, req,
                            [i \in 1 .. (IF Len(users) < 1000
                                         THEN Len(users) ELSE 1000) |->
                               User(users[i])])
                /\ UNCHANGED <<collections, nextId, pc, loc>>
    /\ UNCHANGED <<clock, session, initDone>>

(* ------------------------------- settings ------------------------------ *)

\* SiteSettings().model_dump()
DefaultSettings ==
    [theme_colors |-> [primary |-> "#FACC15", background |-> "#09090b"],
     payment_methods |-> [upi |-> TRUE, card |-> TRUE, cod |-> TRUE]]

AnyDoc(coll) == FindOne(coll, LAMBDA d : TRUE)

\* GET /settings, up to the await of db.site_settings.find_one
get_settings(p) ==
    /\ pc[p] = "idle"
    /\ \E i \in AnyDoc(site_settings) :
        IF i = 0
        THEN /\ ev' = Step("get_settings", p, "find_one", NoIdentity, Nil)
             /\ Goto(p, "get_settings_insert", Nil)
        ELSE /\ ev' = Ev("get_settings", p, 200, "", NoIdentity, Nil,
                         site_settings[i])
             /\ UNCHANGED <<pc, loc>>
    /\ UNCHANGED <<collections, clock, nextId, session, initDone>>

\* GET /settings: the body of `if not settings`
get_settings_insert(p) ==
    /\ pc[p] = "get_settings_insert"
    /\ site_settings' = InsertOne(site_settings, DefaultSettings)
    /\ ev' = Ev("get_settings", p, 200, "", NoIdentity, Nil,
                DefaultSettings)
    /\ Return(p)
    /\ UNCHANGED <<users, products, categories, carts, orders, clock, nextId,
                   session, initDone>>

update_settings_insert(p, cred, strict, settings) ==
    /\ pc[p] = "idle"
    /\ LET guard == RequireAdmin(cred, strict)
           who == Caller(cred, strict)
           req == [cred |-> cred, body |-> settings]
       IN  IF guard.status # 200
           THEN Refuse("update_settings", p, guard, who, req)
           ELSE /\ site_settings' = InsertOne(site_settings, settings)
                /\ ev' = Ev("update_settings", p, 200, "", who, req,
                            settings)
                /\ UNCHANGED <<users, products, categories, carts, orders,
                               nextId, pc, loc>>
    /\ UNCHANGED <<clock, session, initDone>>

\* PUT /admin/settings: update_one({}, {"$set": ...}, upsert=True)
update_settings(p, cred, strict, settings) ==
    /\ pc[p] = "idle"
    /\ LET guard == RequireAdmin(cred, strict)
           who == Caller(cred, strict)
           req == [cred |-> cred, body |-> settings]
       IN  IF guard.status # 200
           THEN Refuse("update_settings", p, guard, who, req)
           ELSE /\ \E i \in AnyDoc(site_settings) :
                       IF i = 0
                       THEN site_settings' = InsertOne(site_settings,
                                                       settings)
                       ELSE site_settings' = [site_settings EXCEPT
                                ![i] = SetFields(@, settings)]
                /\ ev' = Ev("update_settings", p, 200, "", who, req,
                            settings)
                /\ UNCHANGED <<users, products, categories, carts, orders,
                               nextId, pc, loc>>
    /\ UNCHANGED <<clock, session, initDone>>

(* ------------------------- the shop, set up ---------------------------- *)
(* The requests of signed-in clients run from the state the accounts      *)
(* requests lead to: initialize() has run once on the empty store, then   *)
(* clients 2, 3, ... have signed up, then client 1 has logged in as the   *)
(* seeded admin.  Every client holds the token of its own account.        *)

ShopEmails == <<ADMIN_EMAIL, "a@x.com", "b@x.com", "c@x.com">>

ShopUsers ==
    [p \in Procs |->
        IF p = 1
        THEN UserDoc(FirstId, ADMIN_EMAIL, "Admin", "admin", 0,
                     hash_password(ADMIN_PASSWORD, FirstId))
        ELSE UserDoc(ShopUserId(p), ShopEmails[p], "A", "user", 0,
                     hash_password("p1", ShopUserId(p)))]

ShopSession(p) ==
    LET user == User(ShopUsers[p])
    IN  NewSession(create_token(user.id, user.email, user.role, 0), user, 0)

InitShop ==
    /\ users = ShopUsers
    /\ products = WithIds(BaselineProducts, FirstProductId)
    /\ categories = WithIds(BaselineCategories, FirstCategoryId)
    /\ carts = <<>>
    /\ orders = <<>>
    /\ site_settings = <<>>
    /\ clock = 0
    /\ nextId = ShopNextId
    /\ pc = [p \in Procs |-> "idle"]
    /\ loc = [p \in Procs |-> Nil]
    /\ session = [p \in Procs |-> ShopSession(p)]
    /\ initDone = 1
    /\ ev = Ev("login", 1, 200, "", NoIdentity,
               [email |-> ADMIN_EMAIL, password |-> ADMIN_PASSWORD],
               [token |-> ShopSession(1).token, user |-> ShopSession(1).user])

(* --------------------------- request bodies ---------------------------- *)

ShopUserIds == {ShopUserId(p) : p \in Procs}

ProductBodies ==
    {[name |-> "Widget", description |-> "A widget", price |-> 999,
      category |-> "misc", image |-> "https://example.com/w.jpg",
      stock |-> 100, featured |-> FALSE]}

CategoryBodies ==
    {[name |-> "Misc", slug |-> "misc", image |-> "https://example.com/m.jpg",
      description |-> "Everything else"]}

\* ids named in a path: a seeded document (for orders, the first document
\* created after the set-up) and an id nothing has
ProductIds == {FirstProductId, 0}

CategoryIds == {FirstCategoryId, 0}

OrderIds == {ShopNextId, 0}

Statuses == {"shipped"}

SettingsBodies ==
    {DefaultSettings,
     [theme_colors |-> [primary |-> "#000000", background |-> "#ffffff"],
      payment_methods |-> [upi |-> FALSE, card |-> TRUE, cod |-> FALSE]]}

ItemLists ==
    {<<[product_id |-> FirstProductId, quantity |-> 1]>>,
     <<[product_id |-> FirstProductId + 1, quantity |-> 2],
       [product_id |-> FirstProductId, quantity |-> 1]>>}

\* a body may carry an updated_at of its own (here: yesterday's)
CartBodies ==
    [user_id : ShopUserIds, items : ItemLists,
     updated_at : {[given |-> FALSE, value |-> 0],
                   [given |-> TRUE, value |-> -1]}]

OrderBodies ==
    {[items |-> <<[product_id |-> FirstProductId,
                   product_name |-> "Wireless Headphones", quantity |-> 1,
                   price |-> 19999]>>,
      total |-> total, address |-> [city |-> "Pune"],
      payment_method |-> "cod",
      \* keys OrderCreate does not declare
      id |-> FirstProductId, user_id |-> FirstId, status |-> "delivered",
      created_at |-> -1] : total \in {1}}

(* ---------------------------- specifications --------------------------- *)

Signup ==
    \E p \in Procs :
        \/ \E email \in Emails, password \in Passwords, name \in Names :
               signup_find(p, email, password, name)
        \/ signup_insert(p)

Login == \E p \in Procs, email \in Emails, password \in Passwords :
             login(p, email, password)

InitializeData ==
    \E p \in Procs :
        \/ init_find_admin(p)
        \/ init_insert_admin(p)
        \/ init_count_categories(p)
        \/ init_insert_categories(p)
        \/ init_count_products(p)
        \/ init_insert_products(p)

\* accounts: signup, login and initialize() requests, interleaved.  The
\* shop's set-up state InitShop is one of the states it reaches.
NextAccounts == Signup \/ Login \/ InitializeData

SpecAccounts == Init /\ [][NextAccounts]_vars

\* accounts and seed data: signup and initialize() requests, interleaved
NextSeed == Signup \/ InitializeData

SpecSeed == Init /\ [][NextSeed]_vars

\* credentials: signup and login requests, interleaved
NextLogin == Signup \/ Login

SpecLogin == Init /\ [][NextLogin]_vars

\* tokens over time: one account's signups and logins, an authenticated
\* read with any presented token, and the clock
SignupOne ==
    \E p \in Procs :
        \/ signup_find(p, "a@x.com", "p1", "A")
        \/ signup_insert(p)

LoginOne == \E p \in Procs : login(p, "a@x.com", "p1")

GetMe == \E p \in Procs :
             \E cred \in Presented(p) : \E strict \in AtExpiry(cred) :
                 get_me(p, cred, strict)

NextToken == SignupOne \/ LoginOne \/ GetMe \/ Tick

SpecToken == Init /\ [][NextToken]_vars

\* the admin-only operations, and orders for them to act on
CatalogAdmin ==
    \E p \in Procs :
        \E cred \in SignedIn(p) : \E strict \in AtExpiry(cred) :
            \/ \E body \in ProductBodies : create_product(p, cred, strict, body)
            \/ \E id \in ProductIds, body \in ProductBodies :
                   update_product(p, cred, strict, id, body)
            \/ update_product_find(p)
            \/ \E id \in ProductIds : delete_product(p, cred, strict, id)
            \/ \E body \in CategoryBodies :
                   create_category(p, cred, strict, body)
            \/ \E id \in CategoryIds, body \in CategoryBodies :
                   update_category(p, cred, strict, id, body)
            \/ update_category_find(p)
            \/ \E id \in CategoryIds : delete_category(p, cred, strict, id)

OrdersAdmin ==
    \E p \in Procs :
        \E cred \in SignedIn(p) : \E strict \in AtExpiry(cred) :
            \/ get_all_orders(p, cred, strict)
            \/ \E id \in OrderIds, status \in Statuses :
                   update_order_status(p, cred, strict, id, status)

UsersAdmin ==
    \E p \in Procs :
        \E cred \in SignedIn(p) : \E strict \in AtExpiry(cred) :
            get_all_users(p, cred, strict)

SettingsAdmin ==
    \E p \in Procs :
        \E cred \in SignedIn(p), body \in SettingsBodies :
          \E strict \in AtExpiry(cred) :
            update_settings(p, cred, strict, body)

PlaceOrder ==
    \E p \in Procs :
        \/ \E cred \in SignedIn(p), body \in OrderBodies :
               \E strict \in AtExpiry(cred) :
                   create_order(p, cred, strict, body)
        \/ create_order_delete(p)

NextAdmin ==
    CatalogAdmin \/ OrdersAdmin \/ UsersAdmin \/ SettingsAdmin \/ PlaceOrder

SpecAdmin == InitShop /\ [][NextAdmin]_vars

\* carts and orders of signed-in clients, requests interleaved
CartRequests ==
    \E p \in Procs :
        \E cred \in SignedIn(p) : \E strict \in AtExpiry(cred) :
            \/ get_cart(p, cred, strict)
            \/ \E body \in CartBodies : update_cart(p, cred, strict, body)

OrderReads ==
    \E p \in Procs :
        \E cred \in SignedIn(p) : \E strict \in AtExpiry(cred) :
            get_orders(p, cred, strict)

NextCart == CartRequests \/ PlaceOrder \/ OrderReads

SpecCart == InitShop /\ [][NextCart]_vars

\* the settings singleton: public reads and admin updates, interleaved
GetSettings == \E p \in Procs : get_settings(p) \/ get_settings_insert(p)

PutSettings ==
    \E p \in Procs :
        \E cred \in Presented(p), body \in SettingsBodies :
            \E strict \in AtExpiry(cred) :
                update_settings(p, cred, strict, body)

NextSettings == GetSettings \/ PutSettings

SpecSettings == InitShop /\ [][NextSettings]_vars

\* orders over time: clients place orders and read their own, the admin
\* reads all and sets statuses, the clock moves between the requests
NextOrders == PlaceOrder \/ OrderReads \/ OrdersAdmin \/ Tick

SpecOrders == InitShop /\ [][NextOrders]_vars
(* ------------------------------- claims -------------------------------- *)

Registered(email) == \E i \in DOMAIN users : users[i].email = email

\* C1: no two stored user records have the same email, in every state
\* reachable by concurrent signup and initialize requests.
C1_EmailUnique ==
    \A i, j \in DOMAIN users : i # j => users[i].email # users[j].email

AdminAccounts == {i \in DOMAIN users : users[i].email = ADMIN_EMAIL}

\* C7: once initialize() has returned two or more times there is exactly
\* one user with email admin@shop.com, it has role "admin", and the
\* category and product collections (empty before the first call) hold
\* exactly the baseline datasets.
C7_SeedIdempotent ==
    initDone >= 2 =>
        /\ Cardinality(AdminAccounts) = 1
        /\ \A i \in AdminAccounts : users[i].role = "admin"
        /\ Len(categories) = Len(BaselineCategories)
        /\ Len(products) = Len(BaselineProducts)

\* C9: a token issued at time t carries expiry t + 7 days; presenting it
\* authenticates as exactly the user it was issued for at every time
\* before the expiry and fails with "Token expired" (401) at every time
\* after it; a token that issue did not produce fails with "Invalid
\* token" (401).
C9_TokenLifecycle ==
    ev.op = "get_me" =>
        IF ev.req.kind = "held"
        THEN LET s == session[ev.p]
             IN  /\ s.token.payload.exp = s.at + TokenDays
                 /\ clock < s.at + TokenDays =>
                        /\ ev.status = 200
                        /\ ev.who.user_id = s.user.id
                        /\ ev.who.email = s.user.email
                        /\ ev.who.role = s.user.role
                 /\ clock > s.at + TokenDays =>
                        /\ ev.status = 401
                        /\ ev.detail = "Token expired"
        ELSE /\ ev.status = 401
             /\ ev.detail = "Invalid token"

\* C9 witness: a held token was presented after its expiry and refused
C9_ExpiredSeen ==
    /\ ev.op = "get_me"
    /\ ev.req.kind = "held"
    /\ clock > session[ev.p].at + TokenDays
    /\ ev.detail = "Token expired"

LoginOutcome(e) == [status |-> e.status, detail |-> e.detail, ret |-> e.ret]

InvalidCredentials ==
    [status |-> 401, detail |-> "Invalid credentials", ret |-> Nil]

\* C10: a login with an unregistered email and a login with a registered
\* email whose password does not verify give the identical outcome (401,
\* "Invalid credentials", no token); login changes no collection; it
\* succeeds only for a stored user with that email whose hash verifies
\* the password, and the token then carries that user's id, email, role.
C10_LoginUniform ==
    [][ev'.op = "login" =>
         LET req == ev'.req
             verifying == {i \in DOMAIN users :
                             /\ users[i].email = req.email
                             /\ verify_password(req.password,
                                                users[i].password_hash)}
         IN  /\ UNCHANGED collections
             /\ ev'.status \in {200, 401}
             /\ (~Registered(req.email) \/ verifying = {}) =>
                    /\ LoginOutcome(ev') = InvalidCredentials
                    /\ session' = session
             /\ ev'.status = 401 => LoginOutcome(ev') = InvalidCredentials
             /\ ev'.status = 200 =>
                    \E i \in verifying :
                        /\ ev'.ret.user = User(users[i])
                        /\ ev'.ret.token.payload.user_id = users[i].id
                        /\ ev'.ret.token.payload.email = users[i].email
                        /\ ev'.ret.token.payload.role = users[i].role
                        /\ session'[ev'.p].token = ev'.ret.token
    ]_vars

\* C10 witness: a login with a registered email and a wrong password was
\* refused
C10_WrongPasswordSeen ==
    /\ ev.op = "login"
    /\ ev.status = 401
    /\ Registered(ev.req.email)

AdminOps ==
    {"create_product", "update_product", "delete_product", "create_category",
     "update_category", "delete_category", "get_all_orders",
     "update_order_status", "get_all_users", "update_settings"}

\* C2: an admin-only operation called with a verified identity whose role
\* is not "admin" fails with 403 and leaves every collection unchanged; a
\* step of an admin-only operation changes a collection or answers 200
\* only for an identity whose role is "admin".
C2_AdminGate ==
    [][ev'.op \in AdminOps =>
         /\ (ev'.who # NoIdentity /\ ev'.who.role # "admin") =>
                /\ ev'.status = 403
                /\ ev'.detail = "Admin access required"
                /\ UNCHANGED collections
         /\ ev'.who = NoIdentity =>
                /\ ev'.status = 401
                /\ UNCHANGED collections
         /\ (collections' # collections \/ ev'.status = 200) =>
                ev'.who.role = "admin"
    ]_vars

\* C2 witness: a signed-in customer called an admin-only operation and
\* was refused
C2_CustomerRefused ==
    /\ ev.op \in AdminOps
    /\ ev.who.role = "user"
    /\ ev.status = 403

CartsOf(cs, user_id) == SelectSeq(cs, LAMBDA d : d.user_id = user_id)

\* what GET /cart may answer to user_id
CartViews(cs, user_id) ==
    IF CartsOf(cs, user_id) = <<>>
    THEN {[user_id |-> user_id, items |-> <<>>]}
    ELSE {CartsOf(cs, user_id)[i] : i \in DOMAIN CartsOf(cs, user_id)}

OtherCartsUnchanged(user_id) ==
    \A other \in ShopUserIds \ {user_id} :
        CartsOf(carts', other) = CartsOf(carts, other)

\* C3: the carts collection holds at most one document for each user_id.
C3_OneCartPerUser ==
    \A i, j \in DOMAIN carts : i # j => carts[i].user_id # carts[j].user_id

\* C4: putCart by identity U with any body writes only U's cart: after
\* the call a document with U's user_id holds the submitted items, and
\* the cart documents of every other user are as they were.
C4_CartOwnership ==
    [][(ev'.op = "update_cart" /\ ev'.status = 200) =>
         /\ \E i \in DOMAIN carts' :
                /\ carts'[i].user_id = ev'.who.user_id
                /\ carts'[i].items = ev'.req.body.items
         /\ OtherCartsUnchanged(ev'.who.user_id)
    ]_vars

\* C5: when createOrder for user U completes, the order is stored, a
\* getCart by U returns the empty view {user_id: U, items: []}, and the
\* carts of the other users are as they were.
C5_OrderClearsCart ==
    [][(ev'.op = "create_order" /\ ev'.status = 200) =>
         /\ \E i \in DOMAIN orders' : orders'[i].id = ev'.ret.id
         /\ CartViews(carts', ev'.who.user_id)
                = {[user_id |-> ev'.who.user_id, items |-> <<>>]}
         /\ OtherCartsUnchanged(ev'.who.user_id)
    ]_vars

ItemsRead(cs, user_id) == {view.items : view \in CartViews(cs, user_id)}

\* C6: a putCart by U that repeats U's putCart of the step before leaves
\* what getCart reads for U and the number of cart documents as they
\* were, and every putCart stamps updated_at with the current time.
C6_PutCartIdempotent ==
    [][(ev'.op = "update_cart" /\ ev'.status = 200) =>
         /\ ev'.ret.updated_at = clock'
         /\ (ev.op = "update_cart" /\ ev.status = 200 /\ ev.p = ev'.p
                 /\ ev.req = ev'.req) =>
                /\ ItemsRead(carts', ev'.who.user_id)
                       = ItemsRead(carts, ev'.who.user_id)
                /\ Len(carts') = Len(carts)
    ]_vars

\* C8 as stated: the site_settings collection holds at most one document,
\* and exactly one once a getSettings or updateSettings has completed.
C8_SettingsSingleton ==
    /\ Len(site_settings) <= 1
    /\ (ev.op \in {"get_settings", "update_settings"} /\ ev.status = 200) =>
           Len(site_settings) = 1

\* C8: the site_settings collection never loses a document and holds at
\* least one once a getSettings or updateSettings has completed; a second
\* document appears only when a getSettings whose find saw the collection
\* empty inserts its defaults after another request has created the
\* document; getSettings on an empty collection persists and returns the
\* defaults, and its find writes nothing.
C8_SettingsLazySingleton ==
    [][/\ Len(site_settings') >= Len(site_settings)
       /\ (ev'.op \in {"get_settings", "update_settings"}
               /\ ev'.status = 200) => Len(site_settings') >= 1
       /\ (Len(site_settings) <= 1 /\ Len(site_settings') > 1) =>
              /\ ev'.op = "get_settings"
              /\ pc[ev'.p] = "get_settings_insert"
              /\ Len(site_settings) = 1
       /\ (ev'.op = "get_settings" /\ pc[ev'.p] = "get_settings_insert") =>
              /\ site_settings' = Append(site_settings, DefaultSettings)
              /\ ev'.ret = DefaultSettings
              /\ ev'.status = 200
       /\ (ev'.op = "get_settings" /\ pc[ev'.p] = "idle") =>
              /\ UNCHANGED site_settings
              /\ site_settings # <<>> =>
                     /\ ev'.status = 200
                     /\ \E i \in DOMAIN site_settings :
                            ev'.ret = site_settings[i]
              /\ site_settings = <<>> => pc'[ev'.p] = "get_settings_insert"
    ]_vars

\* C8 witness: a getSettings on the empty collection has persisted the
\* defaults as the one document
C8_DefaultsPersisted ==
    /\ ev.op = "get_settings"
    /\ ev.status = 200
    /\ ev.ret = DefaultSettings
    /\ site_settings = <<DefaultSettings>>


(* ------------------------------ C11, C12 ------------------------------- *)

\* the stored orders of one user
OrdersOf(user_id) == {i \in DOMAIN orders : orders[i].user_id = user_id}

\* the answer of GET /orders as the set of the orders it lists
Listed(found) == {found[k] : k \in DOMAIN found}

\* C11: own orders only.  A successful listMyOrders by identity U lists
\* exactly the stored orders whose user_id is U's (all of them, each once,
\* none of another user), newest created_at first; and the order a
\* createOrder stores carries the user_id of the identity that made the
\* call, whatever user_id the request body names.
C11_OwnOrdersOnly ==
    /\ (ev.op = "get_orders" /\ ev.status = 200) =>
          LET me == session[ev.p].user.id
              found == ev.ret
          IN  /\ ev.who.user_id = me
              /\ \A k \in DOMAIN found : found[k].user_id = me
              /\ Listed(found) = {orders[i] : i \in OrdersOf(me)}
              /\ Len(found) = Cardinality(OrdersOf(me))
              /\ \A k, l \in DOMAIN found :
                    k < l => found[k].created_at >= found[l].created_at
    /\ (ev.op = "create_order" /\ ev.status = 0) =>
          /\ orders[Len(orders)].user_id = session[ev.p].user.id
          /\ orders[Len(orders)].user_id = ev.who.user_id
    /\ (ev.op = "create_order" /\ ev.status = 200) =>
          ev.ret.user_id = session[ev.p].user.id
    /\ \A i \in DOMAIN orders :
          \E p \in Procs : orders[i].user_id = session[p].user.id

\* a customer, whose order body named the admin's user_id, and the admin
\* have each placed an order, at different times, and the customer's
\* listing has just answered with the customer's order alone
C11_OrdersListed ==
    /\ ev.op = "get_orders" /\ ev.status = 200
    /\ ev.who.user_id # FirstId
    /\ Len(orders) = 2
    /\ Len(ev.ret) = 1
    /\ \E i, j \in DOMAIN orders :
          /\ orders[i].user_id = FirstId
          /\ orders[j].user_id = ev.who.user_id
          /\ orders[i].created_at # orders[j].created_at

\* the fields of a stored order that never change
Immutable(order) ==
    [id |-> order.id, user_id |-> order.user_id, items |-> order.items,
     total |-> order.total, address |-> order.address,
     payment_method |-> order.payment_method,
     created_at |-> order.created_at]

KnownOrder(order_id) == \E i \in DOMAIN orders : orders[i].id = order_id

\* C12: order immutability.  In every step every stored order stays
\* stored with its id, user_id, items, total, address, payment_method and
\* created_at; an order enters the store only through createOrder, with
\* status "pending" whatever the request body says; a status changes only
\* in a successful updateOrderStatus made by an admin identity that names
\* that order's id, and that step changes this one status and nothing
\* else; updateOrderStatus on an unknown order_id changes nothing and
\* answers an admin with 404 "Order not found".
C12_OrderImmutable ==
    [][/\ Len(orders') >= Len(orders)
       /\ \A i \in DOMAIN orders :
             /\ Immutable(orders'[i]) = Immutable(orders[i])
             /\ orders'[i].status # orders[i].status =>
                   /\ ev'.op = "update_order_status"
                   /\ ev'.status = 200
                   /\ ev'.who.role = "admin"
                   /\ session[ev'.p].user.role = "admin"
                   /\ ev'.req.id = orders[i].id
                   /\ ev'.req.status = orders'[i].status
                   /\ Len(orders') = Len(orders)
                   /\ \A j \in DOMAIN orders \ {i} : orders'[j] = orders[j]
                   /\ UNCHANGED <<users, products, categories, carts,
                                  site_settings>>
       /\ \A i \in DOMAIN orders' \ DOMAIN orders :
             /\ ev'.op = "create_order"
             /\ orders'[i].status = "pending"
             /\ orders'[i].created_at = clock
             /\ ~KnownOrder(orders'[i].id)
       /\ (ev'.op = "update_order_status" /\ ~KnownOrder(ev'.req.id)) =>
             /\ UNCHANGED collections
             /\ ev'.status # 200
             /\ ev'.who.role = "admin" =>
                   /\ ev'.status = 404
                   /\ ev'.detail = "Order not found"
             /\ ev'.who.role # "admin" => ev'.status \in {401, 403}
      ]_vars

\* C12 witness: of two stored orders the admin has just set the status of
\* the first, and the second is still pending
C12_StatusChanged ==
    /\ ev.op = "update_order_status" /\ ev.status = 200
    /\ Len(orders) = 2
    /\ orders[1].status = ev.req.status
    /\ orders[1].id = ev.req.id
    /\ orders[2].status = "pending"
====
